---- MODULE Spec2Model ----
(***************************************************************************)
(* Model of ExtractTablesFromPdf.py: main() as a state machine, with       *)
(* find_table_caption, the per-table DataFrame clean-up and                *)
(* create_html_file as operators over character sequences.                 *)
(*                                                                         *)
(* A Python str is a sequence of one-character strings.  A DataFrame is a  *)
(* record [columns, data]; camelot's table.df is a matrix of cell texts.   *)
(***************************************************************************)
EXTENDS Integers, Sequences, FiniteSets, TLC

VARIABLES pc, path_exists, locals, is_closed, tables, i, df, caption,
          extracted_data, stdout, out_file, exit_code

vars == <<pc, path_exists, locals, is_closed, tables, i, df, caption,
          extracted_data, stdout, out_file, exit_code>>

(***************************************************************************)
(* Bounds                                                                  *)
(***************************************************************************)
MaxTables == 2
MaxBlocks == 2
MaxRows == 3
MaxCols == 2

(***************************************************************************)
(* Characters and strings                                                  *)
(***************************************************************************)
Whitespace == {" ", "\n", "\t"}

Digits == {"0", "1", "2", "3", "4", "5", "6", "7", "8", "9"}

DigitSeq == <<"0", "1", "2", "3", "4", "5", "6", "7", "8", "9">>

UpperSeq == <<"A", "B", "C", "D", "E", "F", "G", "H", "I", "J", "K", "L", "M",
              "N", "O", "P", "Q", "R", "S", "T", "U", "V", "W", "X", "Y", "Z">>

LowerSeq == <<"a", "b", "c", "d", "e", "f", "g", "h", "i", "j", "k", "l", "m",
              "n", "o", "p", "q", "r", "s", "t", "u", "v", "w", "x", "y", "z">>

\* re.IGNORECASE folds the letter case before comparing
Lower(c) ==
    IF \E k \in 1..26 : UpperSeq[k] = c
    THEN LowerSeq[CHOOSE k \in 1..26 : UpperSeq[k] = c]
    ELSE c

Concat(ss) ==
    LET RECURSIVE cat(_)
        cat(k) == IF k > Len(ss) THEN <<>> ELSE ss[k] \o cat(k + 1)
    IN cat(1)

\* str.replace(old, new) for a one-character old
Replace(s, old, new) == Concat([k \in 1..Len(s) |-> IF s[k] = old THEN new ELSE <<s[k]>>])

\* str.strip(): drops the leading and the trailing whitespace
Strip(s) ==
    LET nonws == {k \in 1..Len(s) : s[k] \notin Whitespace}
    IN IF nonws = {} THEN <<>>
       ELSE LET lo == CHOOSE k \in nonws : \A m \in nonws : k <= m
                hi == CHOOSE k \in nonws : \A m \in nonws : k >= m
            IN SubSeq(s, lo, hi)

StartsWith(s, prefix) ==
    /\ Len(s) >= Len(prefix)
    /\ SubSeq(s, 1, Len(prefix)) = prefix

\* the elements of seq at the positions where mask is TRUE, in order
SelectByMask(seq, mask) ==
    LET RECURSIVE sel(_)
        sel(k) == IF k > Len(seq) THEN <<>>
                  ELSE (IF mask[k] THEN <<seq[k]>> ELSE <<>>) \o sel(k + 1)
    IN sel(1)

Reverse(seq) == [k \in 1..Len(seq) |-> seq[Len(seq) + 1 - k]]

(***************************************************************************)
(* find_table_caption                                                      *)
(***************************************************************************)
t_Table == <<"t", "a", "b", "l", "e">>

CaptionTokenChars == Digits \cup {".", ":"}

\* caption_pattern matches at position p: "Table", \s*, then [\d\.:]+
CaptionMatchAt(s, p) ==
    /\ p + 4 <= Len(s)
    /\ \A k \in 0..4 : Lower(s[p + k]) = t_Table[k + 1]
    /\ \E j \in (p + 5)..Len(s) :
          /\ \A m \in (p + 5)..(j - 1) : s[m] \in Whitespace
          /\ s[j] \in CaptionTokenChars

\* caption_pattern.search(block_text)
caption_pattern_search(s) == \E p \in 1..Len(s) : CaptionMatchAt(s, p)

\* forward scan (from the block farthest from the table)
find_table_caption_forward(text_blocks) ==
    LET hits == {k \in 1..Len(text_blocks) : caption_pattern_search(text_blocks[k])}
    IN IF hits = {} THEN <<>>
       ELSE LET k == CHOOSE h \in hits : \A g \in hits : h <= g
            IN Replace(Strip(text_blocks[k]), "\n", <<" ">>)

\* text_blocks: the texts (block[4]) of page.get_text("blocks", clip, sort=True)
find_table_caption(text_blocks) ==
    LET rev == Reverse(text_blocks)
        hits == {k \in 1..Len(rev) : caption_pattern_search(rev[k])}
    IN IF hits = {} THEN <<>>
       ELSE LET k == CHOOSE h \in hits : \A g \in hits : h <= g
            IN Replace(Strip(rev[k]), "\n", <<" ">>)

(***************************************************************************)
(* Per-table DataFrame clean-up (main, lines 133-155)                      *)
(***************************************************************************)
t_Unnamed == <<"U", "n", "n", "a", "m", "e", "d">>

t_br == <<"<", "b", "r", ">">>

\* pandas' default column labels 0..n-1, as text
RangeColumns(n) == [k \in 1..n |-> <<DigitSeq[k]>>]

\* table.df: the cell matrix under default column labels
TableFrame(raw) ==
    [columns |-> IF Len(raw) = 0 THEN <<>> ELSE RangeColumns(Len(raw[1])),
     data |-> raw]

\* df.empty: an axis of length 0
IsEmpty(frame) == Len(frame.data) = 0 \/ Len(frame.columns) = 0

\* df.columns = df.iloc[0]; df = df[1:].copy()
PromoteHeader(frame) == [columns |-> frame.data[1], data |-> Tail(frame.data)]

\* df.columns = df.columns.astype(str).str.strip()
StripColumns(frame) ==
    [frame EXCEPT !.columns = [k \in 1..Len(frame.columns) |-> Strip(frame.columns[k])]]

\* a column filter that forgets the data rows
FilterColumnsLabelsOnly(frame, mask) ==
    [frame EXCEPT !.columns = SelectByMask(frame.columns, mask)]

\* df.loc[:, mask]: the masked columns, labels and every row alike
FilterColumns(frame, mask) ==
    [columns |-> SelectByMask(frame.columns, mask),
     data |-> [r \in 1..Len(frame.data) |-> SelectByMask(frame.data[r], mask)]]

\* df.loc[:, df.columns != ""]
DropBlankColumns(frame) ==
    FilterColumns(frame, [k \in 1..Len(frame.columns) |-> frame.columns[k] # <<>>])

\* df.loc[:, ~df.columns.str.contains('^Unnamed')]
DropUnnamedColumns(frame) ==
    FilterColumns(frame,
        [k \in 1..Len(frame.columns) |-> ~StartsWith(frame.columns[k], t_Unnamed)])

\* lines 142-148 (reset_index renumbers the row labels, which the model does not keep)
NormalizeFrame(frame) ==
    DropUnnamedColumns(DropBlankColumns(StripColumns(PromoteHeader(frame))))

\* df.applymap(lambda x: str(x).replace('\n', '<br>')): the data cells only
ApplyMapBr(frame) ==
    [frame EXCEPT !.data =
        [r \in 1..Len(frame.data) |->
            [k \in 1..Len(frame.data[r]) |-> Replace(frame.data[r][k], "\n", t_br)]]]

\* pandas' escape=True: & < > become entities
Escape(s) ==
    Concat([k \in 1..Len(s) |->
        CASE s[k] = "&" -> <<"&", "a", "m", "p", ";">>
          [] s[k] = "<" -> <<"&", "l", "t", ";">>
          [] s[k] = ">" -> <<"&", "g", "t", ";">>
          [] OTHER -> <<s[k]>>])

\* df.to_html(index=False, border=0, classes="data-table", escape=...):
\* one <th> per column label, one <tr> of <td> per data row
to_html(frame, escape) ==
    [table_attr |-> "class=dataframe data-table",
     th_attr |-> "",
     td_attr |-> "",
     thead |-> [k \in 1..Len(frame.columns) |->
                  IF escape THEN Escape(frame.columns[k]) ELSE frame.columns[k]],
     tbody |-> [r \in 1..Len(frame.data) |->
                  [k \in 1..Len(frame.data[r]) |->
                     IF escape THEN Escape(frame.data[r][k]) ELSE frame.data[r][k]]]]

\* the four html.replace calls, lines 152-155
StyleHtml(html) ==
    [table_attr |-> "style=border-collapse: collapse; font-size: 0.9em; margin-bottom: 20px;",
     th_attr |-> "style=border: 1px solid #ddd; padding: 8px; text-align: center; background-color: #f2f2f2; font-weight: bold;",
     td_attr |-> "style=border: 1px solid #ddd; padding: 8px; text-align: center;",
     thead |-> SelectSeq(html.thead, LAMBDA c : c # <<>>),
     tbody |-> html.tbody]

\* lines 150-155
SerializeFrame(frame) == StyleHtml(to_html(ApplyMapBr(frame), FALSE))

\* an insertion at the front of the list
PrependItem(data, item) == <<item>> \o data

\* extracted_data.append(item)
AppendItem(data, item) == Append(data, item)

(***************************************************************************)
(* create_html_file                                                        *)
(***************************************************************************)
EmptyHtml == [table_attr |-> "", th_attr |-> "", td_attr |-> "", thead |-> <<>>, tbody |-> <<>>]

\* the two elements emitted per item, lines 92-93
ItemElements(item) ==
    << [tag |-> "h3", text |-> item.caption, html |-> EmptyHtml],
       [tag |-> "div", text |-> <<>>, html |-> item.html] >>

\* lines 89-93
TablesContent(tables_data) ==
    LET RECURSIVE build(_)
        build(k) == IF k > Len(tables_data) THEN <<>>
                    ELSE ItemElements(tables_data[k]) \o build(k + 1)
    IN build(1)

\* html_template.format(...), lines 95-99
FullHtml(tables_data) ==
    [num_tables |-> Len(tables_data), tables_content |-> TablesContent(tables_data)]

NoFile == [exists |-> FALSE, written |-> FALSE, num_tables |-> 0, tables_content |-> <<>>]

\* open(output_path, 'w') has created or truncated the file; nothing written yet
OpenedFile == [exists |-> TRUE, written |-> FALSE, num_tables |-> 0, tables_content |-> <<>>]

WrittenFile(full_html) ==
    [exists |-> TRUE, written |-> TRUE,
     num_tables |-> full_html.num_tables, tables_content |-> full_html.tables_content]

(***************************************************************************)
(* Inputs: cell texts, text blocks, detected tables                        *)
(***************************************************************************)
s_Name == <<"N", "a", "m", "e">>
s_Score == <<" ", "S", "c", "o", "r", "e", " ">>
s_Unnamed2 == <<"U", "n", "n", "a", "m", "e", "d", ":", " ", "2">>
s_UnnamedItems == <<"U", "n", "n", "a", "m", "e", "d", " ", "i", "t", "e", "m", "s">>
s_NaNlMe == <<"N", "a", "\n", "m", "e">>
s_x == <<"x">>
s_y == <<"y">>
s_Alice == <<"A", "l", "i", "c", "e">>
s_9 == <<"9">>
s_a_nl_b == <<"a", "\n", "b">>
b_Table4 == <<"T", "a", "b", "l", "e", " ", "4", ":", " ", "R", "e", "v", "e", "n", "u", "e", " ", "b", "y", " ", "Q", "u", "a", "r", "t", "e", "r", "\n", "(", "i", "n", " ", "m", "i", "l", "l", "i", "o", "n", "s", ")">>
b_table32 == <<"t", "a", "b", "l", "e", " ", "3", ".", "2", " ", "R", "e", "s", "u", "l", "t", "s">>
b_Tabled == <<"T", "a", "b", "l", "e", "d", " ", "r", "e", "s", "u", "l", "t", "s">>
b_Stable5 == <<"S", "t", "a", "b", "l", "e", " ", "5">>
b_Results == <<"R", "e", "s", "u", "l", "t", "s">>
b_TableOnly == <<"T", "a", "b", "l", "e">>
b_TABLE_nl_2 == <<" ", "T", "A", "B", "L", "E", "\n", "2", " ", "\n">>
b_TableColon == <<"T", "a", "b", "l", "e", ":", " ", "2">>
b_Table7 == <<"s", "e", "e", " ", "T", "a", "b", "l", "e", "7", "a">>

HeaderSamples == {<<>>, <<" ">>, s_Score, s_Unnamed2, s_UnnamedItems, s_NaNlMe}

\* data rows of c cells: digits by column, letters by column, a cell with a line break
RowSamples(c) ==
    {[k \in 1..c |-> <<DigitSeq[k + 1]>>],
     [k \in 1..c |-> <<LowerSeq[k]>>],
     [k \in 1..c |-> IF k = 1 THEN s_a_nl_b ELSE s_x]}

BlockSamples == {<<>>, b_Table4, b_table32, b_Tabled, b_Stable5, b_Results,
                 b_TableOnly, b_TABLE_nl_2, b_TableColon, b_Table7}

SeqsUpTo(S, n) == UNION {[1..k -> S] : k \in 0..n}

\* every cell matrix of 1..MaxRows rows and 1..MaxCols columns whose first row is
\* drawn from HeaderSamples and whose other rows from RowSamples
RawFrames ==
    UNION {{<<h>> \o d : h \in [1..c -> HeaderSamples],
                         d \in SeqsUpTo(RowSamples(c), MaxRows - 1)}
           : c \in 1..MaxCols}

BlockSeqs == SeqsUpTo(BlockSamples, MaxBlocks)

\* the cell matrices of the detected tables of a run
DetectedFrames ==
    { <<>>,
      << <<<<>>, s_Name, s_Unnamed2, s_Score>>, <<s_x, s_Alice, s_y, s_9>> >>,
      << <<s_NaNlMe, <<" ">>>>, <<s_a_nl_b, s_x>>, <<s_y, s_9>> >>,
      << <<s_UnnamedItems>> >> }

DetectedBlocks == { <<>>, <<b_Table4>>, <<b_table32, b_Results>> }

DetectedTables == [df : DetectedFrames, blocks : DetectedBlocks]

TableLists == SeqsUpTo(DetectedTables, MaxTables)

NoExit == -1

EmptyFrame == [columns |-> <<>>, data |-> <<>>]

(***************************************************************************)
(* main                                                                    *)
(***************************************************************************)
Init ==
    /\ pc = "start"
    /\ path_exists \in BOOLEAN
    /\ locals = {}
    /\ is_closed = FALSE
    /\ tables = <<>>
    /\ i = 0
    /\ df = EmptyFrame
    /\ caption = <<>>
    /\ extracted_data = <<>>
    /\ stdout = <<>>
    /\ out_file = NoFile
    /\ exit_code = NoExit

\* lines 115-117
FileNotFound ==
    /\ pc = "start"
    /\ ~path_exists
    /\ stdout' = Append(stdout, "Error: File not found")
    /\ exit_code' = 1
    /\ pc' = "done"
    /\ UNCHANGED <<path_exists, locals, is_closed, tables, i, df, caption,
                   extracted_data, out_file>>

\* lines 115, 119-120
StartProcessing ==
    /\ pc = "start"
    /\ path_exists
    /\ stdout' = stdout \o <<"Processing PDF", "Using caption search margin">>
    /\ pc' = "open"
    /\ UNCHANGED <<path_exists, locals, is_closed, tables, i, df, caption,
                   extracted_data, out_file, exit_code>>

\* line 123
OpenDocument ==
    /\ pc = "open"
    /\ locals' = locals \cup {"pdf_document"}
    /\ is_closed' = FALSE
    /\ pc' = "read_pdf"
    /\ UNCHANGED <<path_exists, tables, i, df, caption, extracted_data, stdout,
                   out_file, exit_code>>

\* line 124
ReadPdf ==
    /\ pc = "read_pdf"
    /\ \E ts \in TableLists : tables' = ts
    /\ locals' = locals \cup {"tables"}
    /\ pc' = "check_n"
    /\ UNCHANGED <<path_exists, is_closed, i, df, caption, extracted_data, stdout,
                   out_file, exit_code>>

\* tables.n == 0 falling through to the loop
NoTablesFallThrough ==
    /\ pc = "check_n"
    /\ Len(tables) = 0
    /\ stdout' = Append(stdout, "No tables found in the PDF.")
    /\ locals' = locals \cup {"extracted_data"}
    /\ extracted_data' = <<>>
    /\ i' = 0
    /\ pc' = "loop"
    /\ UNCHANGED <<path_exists, is_closed, tables, df, caption, out_file, exit_code>>

\* lines 126-129
NoTablesFound ==
    /\ pc = "check_n"
    /\ Len(tables) = 0
    /\ stdout' = Append(stdout, "No tables found in the PDF.")
    /\ is_closed' = TRUE
    /\ exit_code' = 0
    /\ pc' = "done"
    /\ UNCHANGED <<path_exists, locals, tables, i, df, caption, extracted_data,
                   out_file>>

\* lines 126, 131
BeginLoop ==
    /\ pc = "check_n"
    /\ Len(tables) # 0
    /\ locals' = locals \cup {"extracted_data"}
    /\ extracted_data' = <<>>
    /\ i' = 0
    /\ pc' = "loop"
    /\ UNCHANGED <<path_exists, is_closed, tables, df, caption, stdout, out_file,
                   exit_code>>

\* lines 132-135: the next table, skipped when its frame is empty
LoopNext ==
    /\ pc = "loop"
    /\ i < Len(tables)
    /\ i' = i + 1
    /\ df' = TableFrame(tables[i + 1].df)
    /\ pc' = IF IsEmpty(TableFrame(tables[i + 1].df)) THEN "loop" ELSE "find_caption"
    /\ UNCHANGED <<path_exists, locals, is_closed, tables, caption, extracted_data,
                   stdout, out_file, exit_code>>

\* line 137
FindCaption ==
    /\ pc = "find_caption"
    /\ caption' = find_table_caption(tables[i].blocks)
    /\ pc' = "normalize"
    /\ UNCHANGED <<path_exists, locals, is_closed, tables, i, df, extracted_data,
                   stdout, out_file, exit_code>>

\* lines 142-148
Normalize ==
    /\ pc = "normalize"
    /\ df' = NormalizeFrame(df)
    /\ pc' = "serialize"
    /\ UNCHANGED <<path_exists, locals, is_closed, tables, i, caption, extracted_data,
                   stdout, out_file, exit_code>>

\* lines 150-156
Serialize ==
    /\ pc = "serialize"
    /\ df' = ApplyMapBr(df)
    /\ extracted_data' =
          AppendItem(extracted_data, [caption |-> caption, html |-> SerializeFrame(df)])
    /\ pc' = "loop"
    /\ UNCHANGED <<path_exists, locals, is_closed, tables, i, caption, stdout,
                   out_file, exit_code>>

\* line 159, once the loop is exhausted
CloseDocument ==
    /\ pc = "loop"
    /\ i = Len(tables)
    /\ is_closed' = TRUE
    /\ pc' = "create_html"
    /\ UNCHANGED <<path_exists, locals, tables, i, df, caption, extracted_data,
                   stdout, out_file, exit_code>>

\* create_html_file, lines 89-100: the document is built and the file opened for writing
OpenOutput ==
    /\ pc = "create_html"
    /\ out_file' = OpenedFile
    /\ pc' = "write"
    /\ UNCHANGED <<path_exists, locals, is_closed, tables, i, df, caption,
                   extracted_data, stdout, exit_code>>

\* line 101, then line 162 and the return of main
WriteOutput ==
    /\ pc = "write"
    /\ out_file' = WrittenFile(FullHtml(extracted_data))
    /\ stdout' = Append(stdout, "Successfully saved HTML")
    /\ exit_code' = 0
    /\ pc' = "done"
    /\ UNCHANGED <<path_exists, locals, is_closed, tables, i, df, caption,
                   extracted_data>>

\* the statements of the try block that call into fitz, camelot, pandas or the file
\* system, each of which may raise: fitz.open (123), camelot.read_pdf (124),
\* find_table_caption (137), the frame clean-up (142-148), the serialization
\* (150-155), open (100) and f.write (101)
RaisingSteps == {"open", "read_pdf", "find_caption", "normalize", "serialize",
                 "create_html", "write"}

\* the statement at pc raises before it assigns anything; control goes to line 164
RaiseException ==
    /\ pc \in RaisingSteps
    /\ pc' = "except"
    /\ UNCHANGED <<path_exists, locals, is_closed, tables, i, df, caption,
                   extracted_data, stdout, out_file, exit_code>>

\* a handler that only reports
HandleExceptionNoClose ==
    /\ pc = "except"
    /\ stdout' = Append(stdout, "An error occurred")
    /\ exit_code' = 1
    /\ pc' = "done"
    /\ UNCHANGED <<path_exists, locals, is_closed, tables, i, df, caption,
                   extracted_data, out_file>>

\* lines 164-168
HandleException ==
    /\ pc = "except"
    /\ stdout' = Append(stdout, "An error occurred")
    /\ is_closed' = IF "pdf_document" \in locals /\ ~is_closed THEN TRUE ELSE is_closed
    /\ exit_code' = 1
    /\ pc' = "done"
    /\ UNCHANGED <<path_exists, locals, tables, i, df, caption, extracted_data,
                   out_file>>

Next ==
    \/ FileNotFound
    \/ StartProcessing
    \/ OpenDocument
    \/ ReadPdf
    \/ NoTablesFound
    \/ BeginLoop
    \/ LoopNext
    \/ FindCaption
    \/ Normalize
    \/ Serialize
    \/ CloseDocument
    \/ OpenOutput
    \/ WriteOutput
    \/ RaiseException
    \/ HandleException

Spec == Init /\ [][Next]_vars

(***************************************************************************)
(* The clean-up of one table, over every frame of RawFrames                *)
(***************************************************************************)
InitNormalize ==
    /\ pc = "loop"
    /\ path_exists = TRUE
    /\ locals = {"pdf_document", "tables", "extracted_data"}
    /\ is_closed = FALSE
    /\ \E raw \in RawFrames : tables = <<[df |-> raw, blocks |-> <<>>]>>
    /\ i = 0
    /\ df = EmptyFrame
    /\ caption = <<>>
    /\ extracted_data = <<>>
    /\ stdout = <<"Processing PDF", "Using caption search margin">>
    /\ out_file = NoFile
    /\ exit_code = NoExit

NextNormalize ==
    \/ LoopNext
    \/ FindCaption
    \/ Normalize
    \/ Serialize

SpecNormalize == InitNormalize /\ [][NextNormalize]_vars

(***************************************************************************)
(* The caption search of one table, over every block sequence of BlockSeqs *)
(***************************************************************************)
InitCaption ==
    /\ pc = "loop"
    /\ path_exists = TRUE
    /\ locals = {"pdf_document", "tables", "extracted_data"}
    /\ is_closed = FALSE
    /\ \E bs \in BlockSeqs : tables = <<[df |-> << <<s_Name>>, <<s_x>> >>, blocks |-> bs]>>
    /\ i = 0
    /\ df = EmptyFrame
    /\ caption = <<>>
    /\ extracted_data = <<>>
    /\ stdout = <<"Processing PDF", "Using caption search margin">>
    /\ out_file = NoFile
    /\ exit_code = NoExit

NextCaption ==
    \/ LoopNext
    \/ FindCaption

SpecCaption == InitCaption /\ [][NextCaption]_vars

(***************************************************************************)
(* Properties                                                              *)
(***************************************************************************)
\* the members of a finite set of integers, in increasing order
IndexSeq(S) ==
    LET RECURSIVE up(_)
        up(T) == IF T = {} THEN <<>>
                 ELSE LET m == CHOOSE x \in T : \A y \in T : x <= y
                      IN <<m>> \o up(T \ {m})
    IN up(S)

HasLineBreak(s) == \E k \in 1..Len(s) : s[k] = "\n"

\* the raw table the loop is at: its header row and its data rows
RawHeader == tables[i].df[1]

RawRows == Tail(tables[i].df)

C2_NoOutputOnFailure ==
    (pc = "done" /\ exit_code = 1) =>
        /\ ~out_file.exists
        /\ (~path_exists => locals = {})

\* C3: once detection has returned zero tables the run is either about to report it
\* or has ended with exit code 0, the informational message as its last output, no
\* error reported, the writer never entered and no output file
C3_ZeroTablesExitsCleanly ==
    ("tables" \in locals /\ Len(tables) = 0) =>
        /\ pc \in {"check_n", "done"}
        /\ ~out_file.exists
        /\ (pc = "done" =>
              /\ exit_code = 0
              /\ stdout[Len(stdout)] = "No tables found in the PDF."
              /\ \A k \in 1..Len(stdout) : stdout[k] # "An error occurred")

C3_Witness ==
    /\ pc = "done"
    /\ "tables" \in locals
    /\ Len(tables) = 0
    /\ exit_code = 0

\* the placeholder-name pattern: the prefix, the separator ": " and a number
IsPlaceholderName(s) ==
    /\ StartsWith(s, t_Unnamed \o <<":", " ">>)
    /\ Len(s) > Len(t_Unnamed) + 2
    /\ \A k \in (Len(t_Unnamed) + 3)..Len(s) : s[k] \in Digits

\* C4: after the clean-up of a table there is one set of column indices kept, in
\* increasing order, for the header and for every data row alike: the labels are the
\* stripped header cells at those indices, every data row is the raw row at those
\* indices, rows are in their original order, every row is as long as the header,
\* and no label is blank or a placeholder name
C4_ColumnsDroppedConsistently ==
    pc = "serialize" =>
        \E kept \in SUBSET (1..Len(RawHeader)) :
            LET idx == IndexSeq(kept)
            IN /\ df.columns = [k \in 1..Len(idx) |-> Strip(RawHeader[idx[k]])]
               /\ Len(df.data) = Len(RawRows)
               /\ \A r \in 1..Len(RawRows) :
                     /\ Len(df.data[r]) = Len(df.columns)
                     /\ df.data[r] = [k \in 1..Len(idx) |-> RawRows[r][idx[k]]]
               /\ \A k \in 1..Len(df.columns) :
                     /\ df.columns[k] # <<>>
                     /\ ~IsPlaceholderName(df.columns[k])

\* a table of two different data rows that lost a column and kept one
C4_Witness ==
    /\ pc = "serialize"
    /\ Len(RawHeader) = 2
    /\ Len(df.columns) = 1
    /\ Len(df.data) = 2
    /\ df.data[1] # df.data[2]

\* C5: the clean-up drops a column exactly when its stripped header is empty or a
\* placeholder name, and keeps every other column
C5_DropsExactlyBlankOrPlaceholder ==
    pc = "serialize" =>
        LET keep == [c \in 1..Len(RawHeader) |->
                        /\ Strip(RawHeader[c]) # <<>>
                        /\ ~IsPlaceholderName(Strip(RawHeader[c]))]
        IN /\ df.columns = SelectByMask([c \in 1..Len(RawHeader) |-> Strip(RawHeader[c])], keep)
           /\ \A r \in 1..Len(RawRows) : df.data[r] = SelectByMask(RawRows[r], keep)

\* the word characters (\w) among the characters in use
WordChars == {UpperSeq[k] : k \in 1..26} \cup {LowerSeq[k] : k \in 1..26}
             \cup Digits \cup {"_"}

\* "Table" in any letter case at a word boundary, optional whitespace, then a
\* character of the digits/dots/colons token
WordTableMatch(s) ==
    \E p \in 1..Len(s) :
        /\ CaptionMatchAt(s, p)
        /\ (p = 1 \/ s[p - 1] \notin WordChars)

\* C6: a caption is returned exactly when some block holds the word "Table" at a
\* word boundary followed by optional whitespace and a digits/dots/colons token
C6_CaptionIffWordTable ==
    pc = "normalize" =>
        (caption # <<>> <=>
            \E k \in 1..Len(tables[i].blocks) : WordTableMatch(tables[i].blocks[k]))

DivPositions ==
    {p \in 1..Len(out_file.tables_content) : out_file.tables_content[p].tag = "div"}

\* C8: in the written document no heading is emitted without a caption, and a table
\* whose caption was found has the heading with that caption right before it
C8_HeadingIffCaption ==
    out_file.written =>
        /\ \A p \in 1..Len(out_file.tables_content) :
              out_file.tables_content[p].tag = "h3" =>
                  out_file.tables_content[p].text # <<>>
        /\ \A k \in 1..Len(extracted_data) :
              extracted_data[k].caption # <<>> =>
                  LET p == IndexSeq(DivPositions)[k]
                  IN /\ p > 1
                     /\ out_file.tables_content[p - 1].tag = "h3"
                     /\ out_file.tables_content[p - 1].text = extracted_data[k].caption

\* C9: the written document holds one table element per non-empty detected table,
\* in detection order, each right after the heading that carries the caption of the
\* same table, and the displayed count is the number of table elements
C9_FragmentsInDetectionOrder ==
    out_file.written =>
        LET src == IndexSeq({t \in 1..Len(tables) : ~IsEmpty(TableFrame(tables[t].df))})
            divs == IndexSeq(DivPositions)
            content == out_file.tables_content
        IN /\ Len(divs) = Len(src)
           /\ out_file.num_tables = Len(divs)
           /\ Len(content) = 2 * Len(divs)
           /\ \A k \in 1..Len(divs) :
                 /\ content[divs[k]].html =
                       SerializeFrame(NormalizeFrame(TableFrame(tables[src[k]].df)))
                 /\ divs[k] > 1
                 /\ content[divs[k] - 1].text = find_table_caption(tables[src[k]].blocks)

\* two tables with different captions and different contents, both written
C9_Witness ==
    /\ out_file.written
    /\ out_file.num_tables = 2
    /\ out_file.tables_content[1].text # out_file.tables_content[3].text
    /\ out_file.tables_content[2].html # out_file.tables_content[4].html

\* an empty table between the detection and the document: skipped, no error
C9_SkipWitness ==
    /\ out_file.written
    /\ Len(tables) = 2
    /\ out_file.num_tables = 1
    /\ exit_code = 0

\* C10: in the serialized table every cell of a surviving column, header cells
\* included, is the cell's text with each line break replaced by the unescaped
\* <br> token, so no cell holds a raw line break
C10_NoRawLineBreakInCells ==
    (pc = "loop" /\ i = 1 /\ Len(extracted_data) = 1) =>
        LET html == extracted_data[1].html
            norm == NormalizeFrame(TableFrame(tables[1].df))
        IN /\ html.thead = [k \in 1..Len(norm.columns) |->
                               Replace(norm.columns[k], "\n", t_br)]
           /\ html.tbody = [r \in 1..Len(norm.data) |->
                               [k \in 1..Len(norm.data[r]) |->
                                   Replace(norm.data[r][k], "\n", t_br)]]
           /\ \A k \in 1..Len(html.thead) : ~HasLineBreak(html.thead[k])
           /\ \A r \in 1..Len(html.tbody) : \A k \in 1..Len(html.tbody[r]) :
                 ~HasLineBreak(html.tbody[r][k])

====
